---------------------------- MODULE Spec2Model ----------------------------
(***************************************************************************)
(* A model of src/polymer/expression-scanner.ts: the scanner for Polymer   *)
(* databinding expressions ({{expr}} and [[expr]]) in HTML text nodes,     *)
(* attribute values and JavaScript string literals.                        *)
(*                                                                         *)
(* Text is a sequence of one-character strings.  Indexes into text are     *)
(* 0-based, as in the source; CharAt converts to TLA+'s 1-based sequences. *)
(***************************************************************************)
EXTENDS Integers, Sequences, FiniteSets, TLC

VARIABLES
    pc,          \* position of the running operation
    str,         \* the text that the operation is applied to
    bindings,    \* the RawDatabinding[] of findDatabindingInString
    startIndex,  \* indexesToSourceRange: its startIndex argument
    endIndex,    \* indexesToSourceRange: its endIndex argument
    sourceRange, \* indexesToSourceRange: the SourceRange it returned
    program,     \* DatabindingExpression._expressionAst
    properties,  \* DatabindingExpression.properties
    exprWarnings,\* DatabindingExpression.warnings
    parseResult, \* what parseExpression returned
    site,        \* which extractor runs: "text-node", "attribute" or "javascript"
    literal,     \* the estree node handed to parseExpressionInJsStringLiteral
    locatable,   \* whether the document has a source range for the node
    dataBindings,\* the extractor's dataBindings
    locals,      \* the local values of each iteration of the extractor's loop
    results,     \* the expressions returned
    warnings,    \* the warnings returned
    databinding, \* parseExpressionInJsStringLiteral: result.databinding
    document,    \* the parsed HTML document
    scope,       \* the template handed to scanDatabindingTemplateForExpressions
    templates,   \* the templates handed to extractDataBindingsFromTemplates
    visits       \* the extractor calls of the walk, in order

scanVars  == <<bindings>>
rangeVars == <<startIndex, endIndex, sourceRange>>
exprVars  == <<program, properties, exprWarnings>>
parseVars == <<parseResult>>
siteVars  == <<site, literal, locatable>>
extractVars == <<siteVars, dataBindings, locals, results, warnings, databinding>>

walkVars == <<document, scope, templates, visits>>

vars == <<pc, str, scanVars, rangeVars, exprVars, parseVars, extractVars, walkVars>>

\* the value of a variable that the running operation does not use
Unused == <<>>

ScanUnused  == bindings = Unused
RangeUnused == startIndex = 0 /\ endIndex = 0 /\ sourceRange = Unused
ExprUnused  == program = Unused /\ properties = Unused /\ exprWarnings = Unused
ParseUnused == parseResult = Unused
ExtractUnused ==
    /\ site = Unused /\ literal = Unused /\ locatable = TRUE
    /\ dataBindings = Unused /\ locals = Unused
    /\ results = Unused /\ warnings = Unused /\ databinding = Unused
WalkUnused ==
    /\ document = Unused /\ scope = Unused /\ templates = Unused /\ visits = Unused

----------------------------------------------------------------------------
(* Text helpers: the JavaScript string primitives the source relies on.    *)

CharAt(s, i) == s[i + 1]

\* s.slice(from, to) for 0 <= from <= to <= s.length
Slice(s, from, to) == [k \in 1..(to - from) |-> s[from + k]]

\* whether the text pat occurs in s at 0-based index i
OccursAt(s, pat, i) ==
    /\ i >= 0
    /\ i + Len(pat) <= Len(s)
    /\ \A k \in 1..Len(pat) : s[i + k] = pat[k]

Min(S) == CHOOSE x \in S : \A y \in S : x <= y
Max(S) == CHOOSE x \in S : \A y \in S : x >= y

\* s.indexOf(pat, from): the least index >= from where pat occurs, or -1
IndexOf(s, pat, from) ==
    LET hits == {i \in from..(Len(s) - Len(pat)) : OccursAt(s, pat, i)}
    IN  IF hits = {} THEN -1 ELSE Min(hits)

RECURSIVE Concat(_)
\* the concatenation of a sequence of texts
Concat(pieces) ==
    IF pieces = <<>> THEN <<>> ELSE Head(pieces) \o Concat(Tail(pieces))

\* every sequence over S of length at most n
SeqsUpTo(S, n) == UNION {[1..k -> S] : k \in 0..n}

----------------------------------------------------------------------------
(* findDatabindingInString                                                 *)

MustacheOpen  == <<"{", "{">>
BracketOpen   == <<"[", "[">>
MustacheClose == <<"}", "}">>
BracketClose  == <<"]", "]">>

\* openers.exec(str) with openers.lastIndex = lastIndex: the index of the
\* leftmost {{ or [[ at or after lastIndex, or -1 (exec returned null)
ExecOpeners(s, lastIndex) ==
    LET hits == {i \in lastIndex..(Len(s) - 2) :
                    OccursAt(s, MustacheOpen, i) \/ OccursAt(s, BracketOpen, i)}
    IN  IF hits = {} THEN -1 ELSE Min(hits)

StartIndexOffByOne(matchIndex) == matchIndex + 1

\* const startIndex = match.index + 2
StartIndexOf(matchIndex) == matchIndex + 2

\* const direction = matchedOpeners === '{{' ? '{' : '['
DirectionOf(matchedOpeners) == IF matchedOpeners = MustacheOpen THEN "{" ELSE "["

\* const closers = matchedOpeners === '{{' ? '}}' : ']]'
ClosersOf(matchedOpeners) ==
    IF matchedOpeners = MustacheOpen THEN MustacheClose ELSE BracketClose

RECURSIVE ScanLoop(_, _, _)
\* the while loop of findDatabindingInString, entered with openers.lastIndex
\* = lastIndex and the bindings pushed so far
ScanLoop(s, lastIndex, expressions) ==
    LET matchIndex == ExecOpeners(s, lastIndex)
    IN  IF matchIndex = -1
        THEN expressions
        ELSE LET matchedOpeners == Slice(s, matchIndex, matchIndex + 2)
                 start == StartIndexOf(matchIndex)
                 end   == IndexOf(s, ClosersOf(matchedOpeners), start)
             IN  IF end = -1
                 THEN expressions    \* break
                 ELSE ScanLoop(s, end + 2,
                          Append(expressions,
                                 [startIndex     |-> start,
                                  endIndex       |-> end,
                                  expressionText |-> Slice(s, start, end),
                                  direction      |-> DirectionOf(matchedOpeners)]))

FindDatabindingInString(s) == ScanLoop(s, 0, <<>>)

----------------------------------------------------------------------------
(* Specification SpecScan: findDatabindingInString applied to every string  *)
(* built from at most MaxPieces delimiter pieces and filler characters.     *)

MaxPieces == 4

ScanPieces ==
    {MustacheOpen, MustacheClose, BracketOpen, BracketClose,
     <<"{">>, <<"}">>, <<"[">>, <<"]">>, <<"a">>}

ScanInputs == {Concat(ps) : ps \in SeqsUpTo(ScanPieces, MaxPieces)}

InitScan ==
    /\ pc = "scan"
    /\ str \in ScanInputs
    /\ bindings = <<>>
    /\ RangeUnused
    /\ ExprUnused
    /\ ParseUnused
    /\ ExtractUnused
    /\ WalkUnused

Scan ==
    /\ pc = "scan"
    /\ bindings' = FindDatabindingInString(str)
    /\ pc' = "scanned"
    /\ UNCHANGED <<str, rangeVars, exprVars, parseVars, extractVars, walkVars>>

NextScan == Scan

SpecScan == InitScan /\ [][NextScan]_vars

\* The scan the claim describes, stated without the loop: where the k-th
\* search for an opener starts from
CursorBefore(bs, k) == IF k = 1 THEN 0 ELSE bs[k - 1].endIndex + 2

IsOpenerAt(s, i) == OccursAt(s, MustacheOpen, i) \/ OccursAt(s, BracketOpen, i)

\* binding b is the one the leftmost opener at or after cursor gives
PairsLeftmostOpener(s, b, cursor) ==
    LET o == b.startIndex - 2
        closer == IF b.direction = "{" THEN MustacheClose ELSE BracketClose
    IN  /\ o >= cursor
        /\ IsOpenerAt(s, o)
        /\ \A i \in cursor..(o - 1) : ~IsOpenerAt(s, i)
        /\ b.direction = (IF OccursAt(s, MustacheOpen, o) THEN "{" ELSE "[")
        /\ b.endIndex >= b.startIndex
        /\ OccursAt(s, closer, b.endIndex)
        /\ \A j \in b.startIndex..(b.endIndex - 1) : ~OccursAt(s, closer, j)
        /\ b.expressionText = Slice(s, b.startIndex, b.endIndex)

\* after the last binding the scan ends: no opener is left, or the leftmost
\* one left has no closer
ScanEndsAt(s, cursor) ==
    \/ \A i \in cursor..(Len(s) - 2) : ~IsOpenerAt(s, i)
    \/ \E o \in cursor..(Len(s) - 2) :
          /\ IsOpenerAt(s, o)
          /\ \A i \in cursor..(o - 1) : ~IsOpenerAt(s, i)
          /\ LET closer == IF OccursAt(s, MustacheOpen, o)
                           THEN MustacheClose ELSE BracketClose
             IN  \A j \in (o + 2)..(Len(s) - 2) : ~OccursAt(s, closer, j)

\* C2: findDatabindingInString returns exactly the bindings obtained by
\* pairing, from the cursor, the leftmost opener with the first matching
\* closer at or after opener + 2 and moving the cursor past that closer; at
\* the first opener without a closer the scan stops, and nothing is emitted
\* for it or for anything to its right.
C2_ScanIsLeftmostPairing ==
    pc = "scanned" =>
        /\ \A k \in 1..Len(bindings) :
              PairsLeftmostOpener(str, bindings[k], CursorBefore(bindings, k))
        /\ ScanEndsAt(str, CursorBefore(bindings, Len(bindings) + 1))

\* an unterminated opener followed by a complete binding: nothing is emitted
C2_Witness ==
    /\ pc = "scanned"
    /\ str = <<"{", "{", "a", "[", "[", "]", "]">>
    /\ bindings = <<>>

----------------------------------------------------------------------------
(* findNewlineIndexes and indexesToSourceRange                             *)

Newline == "\n"

RECURSIVE NewlineLoop(_, _, _)
\* the while loop of findNewlineIndexes, entered with the running index
NewlineLoop(s, index, indexes) ==
    IF index = -1
    THEN indexes
    ELSE NewlineLoop(s, IndexOf(s, <<Newline>>, index + 1), Append(indexes, index))

FindNewlineIndexes(s) == NewlineLoop(s, IndexOf(s, <<Newline>>, 0), <<>>)

LoopExitsOnStart(index, start, end) == ~(index < start)

\* the else branch of `if (index < endIndex)`: "Nothing more interesting to
\* do", the loop breaks
LoopExits(index, start, end) == ~(index < end)

RECURSIVE RangeLoop(_, _, _, _, _)
\* the for loop of indexesToSourceRange from the k-th newline index on; acc
\* holds the four counters
RangeLoop(newlineIndexes, k, start, end, acc) ==
    IF k > Len(newlineIndexes)
    THEN acc
    ELSE LET index == newlineIndexes[k]
             acc1 == IF index < start
                     THEN [acc EXCEPT !.startLineNumLinesIntoText = @ + 1,
                                      !.startOfLineIndex = index + 1]
                     ELSE acc
         IN  IF LoopExits(index, start, end)
             THEN acc1
             ELSE RangeLoop(newlineIndexes, k + 1, start, end,
                      [acc1 EXCEPT !.endLineNumLinesIntoText = @ + 1,
                                   !.endOfLineIndex = index + 1])

IndexesToSourceRange(start, end, filename, newlineIndexes) ==
    LET acc == RangeLoop(newlineIndexes, 1, start, end,
                   [startLineNumLinesIntoText |-> 0, startOfLineIndex |-> 0,
                    endLineNumLinesIntoText   |-> 0, endOfLineIndex   |-> 0])
    IN  [file  |-> filename,
         start |-> [line   |-> acc.startLineNumLinesIntoText,
                    column |-> start - acc.startOfLineIndex],
         end   |-> [line   |-> acc.endLineNumLinesIntoText,
                    column |-> end - acc.endOfLineIndex]]

----------------------------------------------------------------------------
(* Specification SpecRange: indexesToSourceRange applied to every pair of  *)
(* indexes startIndex <= endIndex of every text of at most MaxRangeLen      *)
(* letters and newlines, with the newline indexes findNewlineIndexes gives. *)

MaxRangeLen == 5

FileName == "doc.html"

InitRange ==
    /\ pc = "range"
    /\ str \in SeqsUpTo({"a", Newline}, MaxRangeLen)
    /\ endIndex \in 0..Len(str)
    /\ startIndex \in 0..endIndex
    /\ sourceRange = Unused
    /\ ScanUnused
    /\ ExprUnused
    /\ ParseUnused
    /\ ExtractUnused
    /\ WalkUnused

ToSourceRange ==
    /\ pc = "range"
    /\ sourceRange' =
          IndexesToSourceRange(startIndex, endIndex, FileName, FindNewlineIndexes(str))
    /\ pc' = "ranged"
    /\ UNCHANGED <<str, startIndex, endIndex, scanVars, exprVars, parseVars, extractVars, walkVars>>

NextRange == ToSourceRange

SpecRange == InitRange /\ [][NextRange]_vars

\* the offsets of the newlines of s that lie strictly before index
NewlinesBefore(s, index) == {i \in 0..(Len(s) - 1) : CharAt(s, i) = Newline /\ i < index}

LineOf(s, index) == Cardinality(NewlinesBefore(s, index))

ColumnOf(s, index) ==
    IF NewlinesBefore(s, index) = {}
    THEN index
    ELSE index - (Max(NewlinesBefore(s, index)) + 1)

\* C10: for startIndex <= endIndex, indexesToSourceRange gives each index the
\* number of newlines strictly before it as its line, and as its column the
\* distance from just after the last such newline (from 0 when there is
\* none): the early loop exit skips no newline that precedes either index.
C10_RangeCountsPrecedingNewlines ==
    pc = "ranged" =>
        /\ sourceRange.start.line = LineOf(str, startIndex)
        /\ sourceRange.start.column = ColumnOf(str, startIndex)
        /\ sourceRange.end.line = LineOf(str, endIndex)
        /\ sourceRange.end.column = ColumnOf(str, endIndex)

\* the loop exits early (a newline at or after endIndex) after newlines that
\* precede both indexes and one that precedes only endIndex
C10_Witness ==
    /\ pc = "ranged"
    /\ str = <<Newline, "a", Newline, "a", Newline>>
    /\ startIndex = 1
    /\ endIndex = 3
    /\ sourceRange.start = [line |-> 1, column |-> 0]
    /\ sourceRange.end = [line |-> 2, column |-> 0]

----------------------------------------------------------------------------
(* Source ranges of AST nodes                                              *)

\* correctPosition of model/model: the offset's line is always added, its
\* column only to a position on relative line 0
CorrectPosition(position, locationOffset) ==
    [line   |-> position.line + locationOffset.line,
     column |-> position.column +
                  (IF position.line = 0 THEN locationOffset.col ELSE 0)]

\* correctSourceRange of model/model
CorrectSourceRange(range, locationOffset) ==
    [file  |-> range.file,
     start |-> CorrectPosition(range.start, locationOffset),
     end   |-> CorrectPosition(range.end, locationOffset)]

\* this.locationOffset, set by the constructor from sourceRange.start
LocationOffsetOf(range) == [line |-> range.start.line, col |-> range.start.column]

\* DatabindingExpression.sourceRangeForNode; estree lines are 1-indexed
SourceRangeForNode(self, node) ==
    CorrectSourceRange(
        [file  |-> self.sourceRange.file,
         start |-> [line |-> node.loc.start.line - 1, column |-> node.loc.start.column],
         end   |-> [line |-> node.loc.end.line - 1, column |-> node.loc.end.column]],
        self.locationOffset)

----------------------------------------------------------------------------
(* The grammar validator: DatabindingExpression._extractPropertiesAndValidate *)

ValidationWarning(self, text, arg, node) ==
    [code        |-> "invalid-polymer-expression",
     message     |-> [text |-> text, arg |-> arg],
     sourceRange |-> SourceRangeForNode(self, node),
     severity    |-> "WARNING"]

PushWarning(self, warning) == [self EXCEPT !.warnings = Append(@, warning)]

RecordMemberTail(self, expression) ==
    IF expression.property.type = "Identifier"
    THEN [self EXCEPT !.properties =
             Append(@, [name        |-> expression.property.name,
                        sourceRange |-> SourceRangeForNode(self, expression.property)])]
    ELSE self

\* what a MemberExpression adds besides the recursion into its object: nothing
AfterMemberObject(self, expression) == self

CallAllowedEverywhere(callAllowed) == TRUE

\* the callAllowed argument of the recursive calls for the callee and the
\* arguments of a call, and for the object of a member access: false
CallAllowedBelow(callAllowed) == FALSE

RECURSIVE ExtractAndValidateSubExpression(_, _, _)
RECURSIVE ValidateArguments(_, _, _)

\* for (const arg of expression.arguments) from the k-th argument on
ValidateArguments(self, arguments, k) ==
    IF k > Len(arguments)
    THEN self
    ELSE ValidateArguments(
             ExtractAndValidateSubExpression(self, arguments[k], CallAllowedBelow(TRUE)),
             arguments, k + 1)

\* _extractAndValidateSubExpression; self holds this.properties and
\* this.warnings, and the result is self after the call
ExtractAndValidateSubExpression(self, expression, callAllowed) ==
    IF expression.type = "Literal" THEN self
    ELSE IF expression.type = "Identifier" THEN
        [self EXCEPT !.properties =
            Append(@, [name        |-> expression.name,
                       sourceRange |-> SourceRangeForNode(self, expression)])]
    ELSE IF expression.type = "MemberExpression" THEN
        AfterMemberObject(
            ExtractAndValidateSubExpression(
                self, expression.object, CallAllowedBelow(callAllowed)),
            expression)
    ELSE IF callAllowed /\ expression.type = "CallExpression" THEN
        ValidateArguments(
            ExtractAndValidateSubExpression(
                self, expression.callee, CallAllowedBelow(callAllowed)),
            expression.arguments, 1)
    ELSE PushWarning(self,
             ValidationWarning(self,
                 "Only simple syntax is supported in Polymer databinding expressions.",
                 expression.type, expression))

\* _extractPropertiesAndValidate on this._expressionAst = ast
ExtractPropertiesAndValidate(self, ast) ==
    IF Len(ast.body) # 1 THEN
        PushWarning(self,
            ValidationWarning(self, "Expected one expression, got",
                              ToString(Len(ast.body)), ast))
    ELSE LET expressionStatement == ast.body[1] IN
    IF expressionStatement.type # "ExpressionStatement" THEN
        PushWarning(self,
            ValidationWarning(self, "Expect an expression, not a",
                              expressionStatement.type, expressionStatement))
    ELSE LET expression == expressionStatement.expression IN
    IF expression.type = "UnaryExpression" THEN
        IF expression.operator # "!"
        THEN PushWarning(self,
                 ValidationWarning(self,
                     "Only the logical not (!) operator is supported.", "", expression))
        ELSE ExtractAndValidateSubExpression(self, expression.argument, TRUE)
    ELSE ExtractAndValidateSubExpression(self, expression, TRUE)

\* the DatabindingExpression constructor
NewDatabindingExpression(range, expressionText, ast) ==
    ExtractPropertiesAndValidate(
        [sourceRange    |-> range,
         warnings       |-> <<>>,
         expressionText |-> expressionText,
         locationOffset |-> LocationOffsetOf(range),
         properties     |-> <<>>],
        ast)

----------------------------------------------------------------------------
(* Specification SpecValidate: the validator applied to every program whose *)
(* single expression has at most MaxNodes AST nodes, and to the programs    *)
(* that are not one expression statement.  A node's loc is its place in the *)
(* expression: it starts at its preorder position and spans its subtree.    *)

MaxNodes == 5

Names == {<<"f", "o", "o">>, <<"z", "o", "d">>}

LocAt(p, n) ==
    [start |-> [line |-> 1, column |-> p], end |-> [line |-> 1, column |-> p + n]]

RECURSIVE ArgShapes(_, _)
\* the sequences of expression shapes of m nodes in all; T[k] holds the
\* shapes of k nodes
ArgShapes(T, m) ==
    IF m = 0
    THEN {<<>>}
    ELSE UNION {LET rests == ArgShapes(T, m - j)
                IN  {<<e>> \o rest : e \in T[j], rest \in rests} : j \in 1..m}

\* the expression shapes of exactly n nodes, from those of fewer nodes
ShapesOfSize(T, n) ==
    IF n = 1
    THEN {[type |-> "Identifier", name |-> nm, n |-> 1] : nm \in Names}
            \cup {[type |-> "Literal", n |-> 1]}
    ELSE
       {[type |-> "UnaryExpression", operator |-> op, argument |-> e, n |-> n] :
            op \in {"!", "-"}, e \in T[n - 1]}
       \cup
       UNION {LET argSeqs == ArgShapes(T, n - 1 - k)
              IN  {[type |-> "CallExpression", callee |-> c, arguments |-> args, n |-> n] :
                      c \in T[k], args \in argSeqs} : k \in 1..(n - 1)}
       \cup
       UNION {{[type |-> "LogicalExpression", left |-> l, right |-> r, n |-> n] :
                  l \in T[k], r \in T[n - 1 - k]} : k \in 1..(n - 2)}
       \cup
       UNION {{[type |-> "MemberExpression", object |-> o, property |-> pr,
                computed |-> c, n |-> n] :
                  o \in T[k],
                  pr \in {x \in T[n - 1 - k] : c \/ x.type = "Identifier"}} :
                k \in 1..(n - 2), c \in BOOLEAN}

RECURSIVE GrowShapeTable(_, _)
\* the table T of the shapes of fewer nodes, grown to the shapes of n nodes
GrowShapeTable(T, n) ==
    IF Len(T) >= n THEN T ELSE GrowShapeTable(Append(T, ShapesOfSize(T, Len(T) + 1)), n)

\* T[k], for k in 1..n, the expression shapes of k nodes
ShapeTable(n) == GrowShapeTable(<<>>, n)

RECURSIVE Located(_, _)
RECURSIVE LocatedArgs(_, _)

\* the arguments args with their locs, the first one starting at p
LocatedArgs(args, p) ==
    IF args = <<>>
    THEN <<>>
    ELSE <<Located(Head(args), p)>> \o LocatedArgs(Tail(args), p + Head(args).n)

\* the expression of shape e whose first node is at p
Located(e, p) ==
    CASE e.type = "Identifier" ->
            [type |-> "Identifier", name |-> e.name, loc |-> LocAt(p, 1)]
      [] e.type = "Literal" ->
            [type |-> "Literal", loc |-> LocAt(p, 1)]
      [] e.type = "UnaryExpression" ->
            [type |-> "UnaryExpression", operator |-> e.operator,
             argument |-> Located(e.argument, p + 1), loc |-> LocAt(p, e.n)]
      [] e.type = "CallExpression" ->
            [type |-> "CallExpression", callee |-> Located(e.callee, p + 1),
             arguments |-> LocatedArgs(e.arguments, p + 1 + e.callee.n),
             loc |-> LocAt(p, e.n)]
      [] e.type = "LogicalExpression" ->
            [type |-> "LogicalExpression", left |-> Located(e.left, p + 1),
             right |-> Located(e.right, p + 1 + e.left.n), loc |-> LocAt(p, e.n)]
      [] e.type = "MemberExpression" ->
            [type |-> "MemberExpression", object |-> Located(e.object, p + 1),
             property |-> Located(e.property, p + 1 + e.object.n),
             computed |-> e.computed, loc |-> LocAt(p, e.n)]

ExpressionStatement(e) ==
    [type |-> "ExpressionStatement", expression |-> e, loc |-> e.loc]

ProgramOf(body, n) == [type |-> "Program", body |-> body, loc |-> LocAt(0, n)]

\* the programs whose single expression has at most maxNodes nodes, and the
\* programs that are not one expression statement
Programs(maxNodes) ==
    LET T == ShapeTable(maxNodes)
    IN  {ProgramOf(<<ExpressionStatement(Located(e, 0))>>, e.n) :
            e \in UNION {T[n] : n \in 1..maxNodes}}
        \cup {ProgramOf(<<>>, 0),
              ProgramOf(<<[type |-> "EmptyStatement", loc |-> LocAt(0, 1)]>>, 1)}
        \cup {ProgramOf(<<ExpressionStatement(Located(e1, 0)),
                          ExpressionStatement(Located(e2, 1))>>, 2) :
                e1 \in T[1], e2 \in T[1]}

\* the absolute source range the expression is constructed with
ExprRange ==
    [file |-> FileName, start |-> [line |-> 3, column |-> 4],
     end |-> [line |-> 3, column |-> 4 + MaxNodes]]

InitValidate ==
    /\ pc = "construct"
    /\ str = Unused
    /\ program \in Programs(MaxNodes)
    /\ properties = <<>>
    /\ exprWarnings = <<>>
    /\ ScanUnused
    /\ RangeUnused
    /\ ParseUnused
    /\ ExtractUnused
    /\ WalkUnused

Construct ==
    /\ pc = "construct"
    /\ LET this == NewDatabindingExpression(ExprRange, str, program)
       IN  /\ properties' = this.properties
           /\ exprWarnings' = this.warnings
    /\ pc' = "constructed"
    /\ UNCHANGED <<str, program, scanVars, rangeVars, parseVars, extractVars, walkVars>>

NextValidate == Construct

SpecValidate == InitValidate /\ [][NextValidate]_vars

\* the expression object of SpecValidate, as far as source ranges need it
ThisExpr == [sourceRange |-> ExprRange, locationOffset |-> LocationOffsetOf(ExprRange)]

RangeOfNode(node) == SourceRangeForNode(ThisExpr, node)

RECURSIVE SubNodes(_)
RECURSIVE SubNodesOfAll(_)

SubNodesOfAll(es) ==
    IF es = <<>> THEN {} ELSE SubNodes(Head(es)) \cup SubNodesOfAll(Tail(es))

\* the nodes of the subtree of e, e included
SubNodes(e) ==
    {e} \cup
    CASE e.type = "UnaryExpression"   -> SubNodes(e.argument)
      [] e.type = "CallExpression"    -> SubNodes(e.callee) \cup SubNodesOfAll(e.arguments)
      [] e.type = "LogicalExpression" -> SubNodes(e.left) \cup SubNodes(e.right)
      [] e.type = "MemberExpression"  -> SubNodes(e.object) \cup SubNodes(e.property)
      [] OTHER -> {}

RECURSIVE ChainRoot(_)
\* the root of a member chain: what is left of e after dropping every
\* accessed property
ChainRoot(e) == IF e.type = "MemberExpression" THEN ChainRoot(e.object) ELSE e

IsOneExpression(ast) ==
    Len(ast.body) = 1 /\ ast.body[1].type = "ExpressionStatement"

TopExpression(ast) == ast.body[1].expression

HasTopNot(ast) ==
    TopExpression(ast).type = "UnaryExpression" /\ TopExpression(ast).operator = "!"

\* the top-level expression, or the operand of the top-level logical NOT
Target(ast) ==
    IF HasTopNot(ast) THEN TopExpression(ast).argument ELSE TopExpression(ast)

\* the member/call chains of an accepted expression: callee first, then the
\* arguments left to right; the expression itself when it is no call
ChainsOf(target) ==
    IF target.type = "CallExpression"
    THEN <<target.callee>> \o target.arguments
    ELSE <<target>>

IsIdentifier(e) == e.type = "Identifier"

RootIdentifiers(ast) ==
    IF ~IsOneExpression(ast) THEN <<>>
    ELSE IF TopExpression(ast).type = "UnaryExpression" /\ ~HasTopNot(ast) THEN <<>>
    ELSE LET chains == ChainsOf(Target(ast))
             roots  == [k \in 1..Len(chains) |-> ChainRoot(chains[k])]
             idents == SelectSeq(roots, IsIdentifier)
         IN  [k \in 1..Len(idents) |->
                 [name |-> idents[k].name, sourceRange |-> RangeOfNode(idents[k])]]

\* the nodes that lie in the accessed-property part of some member access
PropertyPartNodes(ast) ==
    UNION {SubNodes(m.property) :
             m \in {n \in SubNodes(TopExpression(ast)) : n.type = "MemberExpression"}}

\* C1: properties holds exactly the unqualified root identifiers of the
\* accepted member/call chains, callee first and then the arguments left to
\* right; the accessed-property part of a member access, plain or computed,
\* is never recorded, and a literal contributes no property.
C1_PropertiesAreRootIdentifiers ==
    pc = "constructed" =>
        /\ properties = RootIdentifiers(program)
        /\ IsOneExpression(program) =>
              \A k \in 1..Len(properties) :
                  /\ \A n \in PropertyPartNodes(program) :
                        properties[k].sourceRange # RangeOfNode(n)
                  /\ \A n \in SubNodes(TopExpression(program)) :
                        n.type = "Literal" => properties[k].sourceRange # RangeOfNode(n)

\* foo(foo.zod): foo and foo are recorded, in that order, and zod is not
C1_Witness ==
    /\ pc = "constructed"
    /\ IsOneExpression(program)
    /\ TopExpression(program).type = "CallExpression"
    /\ TopExpression(program).callee.type = "Identifier"
    /\ Len(TopExpression(program).arguments) = 1
    /\ TopExpression(program).arguments[1].type = "MemberExpression"
    /\ TopExpression(program).arguments[1].object.type = "Identifier"
    /\ TopExpression(program).arguments[1].property.type = "Identifier"
    /\ TopExpression(program).arguments[1].property.name = <<"z", "o", "d">>
    /\ Len(properties) = 2
    /\ properties[1].name = <<"f", "o", "o">>
    /\ properties[2].name = <<"f", "o", "o">>
    /\ exprWarnings = <<>>

\* the call expressions that are neither the top-level expression nor the
\* operand of a top-level logical NOT
CallsElsewhere(ast) ==
    {c \in SubNodes(TopExpression(ast)) :
        /\ c.type = "CallExpression"
        /\ c # TopExpression(ast)
        /\ ~(HasTopNot(ast) /\ c = Target(ast))}

NoPropertyFrom(c) ==
    \A k \in 1..Len(properties) :
        \A n \in SubNodes(c) : properties[k].sourceRange # RangeOfNode(n)

\* a warning was pushed for c or for an expression that contains c
WarnedAtOrAround(ast, c) ==
    \E k \in 1..Len(exprWarnings) :
        \E n \in SubNodes(TopExpression(ast)) :
            /\ exprWarnings[k].sourceRange = RangeOfNode(n)
            /\ c \in SubNodes(n)

\* the callee and the arguments of the accepted call are validated on their
\* own: each one rooted in an identifier has that identifier recorded
ChainsRecorded(ast) ==
    Target(ast).type = "CallExpression" =>
        \A x \in {ChainsOf(Target(ast))[k] : k \in 1..Len(ChainsOf(Target(ast)))} :
            IsIdentifier(ChainRoot(x)) =>
                \E k \in 1..Len(properties) :
                    properties[k].sourceRange = RangeOfNode(ChainRoot(x))

\* the accepted call itself draws no warning
TargetCallAccepted(ast) ==
    Target(ast).type = "CallExpression" =>
        \A k \in 1..Len(exprWarnings) :
            exprWarnings[k].sourceRange # RangeOfNode(Target(ast))

WellFormedTop(ast) ==
    /\ IsOneExpression(ast)
    /\ TopExpression(ast).type = "UnaryExpression" => HasTopNot(ast)

\* C7 as stated: a call anywhere but at the top level or under the single
\* top-level NOT produces a warning and contributes no property.
C7_AsStated ==
    (pc = "constructed" /\ IsOneExpression(program)) =>
        \A c \in CallsElsewhere(program) :
            exprWarnings # <<>> /\ NoPropertyFrom(c)

\* C7 (amended): a call is accepted only as the top-level expression or as
\* the operand of the single top-level NOT.  A call anywhere else contributes
\* no property from its subtree, and it or an expression around it draws a
\* warning unless it lies in the accessed-property part of a member access,
\* which is never visited; the callee and the other arguments of the accepted
\* call are still validated on their own and their identifiers recorded.
C7_NestedCallsRejected ==
    (pc = "constructed" /\ IsOneExpression(program)) =>
        /\ \A c \in CallsElsewhere(program) :
              /\ NoPropertyFrom(c)
              /\ c \notin PropertyPartNodes(program) => WarnedAtOrAround(program, c)
        /\ WellFormedTop(program) =>
              /\ ChainsRecorded(program)
              /\ TargetCallAccepted(program)

\* foo(foo(), zod): the nested call draws the only warning and gives no
\* property, while the callee foo and the argument zod are recorded
C7_Witness ==
    /\ pc = "constructed"
    /\ IsOneExpression(program)
    /\ TopExpression(program).type = "CallExpression"
    /\ Len(TopExpression(program).arguments) = 2
    /\ TopExpression(program).arguments[1].type = "CallExpression"
    /\ TopExpression(program).arguments[2].type = "Identifier"
    /\ Len(exprWarnings) = 1
    /\ exprWarnings[1].sourceRange = RangeOfNode(TopExpression(program).arguments[1])
    /\ Len(properties) = 2
    /\ properties[2].sourceRange = RangeOfNode(TopExpression(program).arguments[2])

----------------------------------------------------------------------------
(* parseJs of javascript/javascript-parser: the expression-language parser, *)
(* a collaborator that returns a program or a failure.  It is modelled as a *)
(* recursive-descent parser of the part of JavaScript that the texts of     *)
(* this model are written in: identifiers of the letters a and b, decimal   *)
(* numbers, member access, calls, the unary operators ! and ~, the binary   *)
(* operators *, and &&, parentheses, and statements ended by ; or by a line *)
(* break.  Any other character is a syntax error.                           *)

Letters == {"a", "b"}
Digits  == {"0", "1", "2", "3", "4", "5", "6", "7", "8", "9"}
Whitespace == {" ", Newline}

\* the character at index i, or EOF past the end
Peek(t, i) == IF i < Len(t) THEN t[i + 1] ELSE "EOF"

RECURSIVE RunEnd(_, _, _)
\* the end of the run of characters of S that starts at i
RunEnd(t, i, S) == IF Peek(t, i) \in S THEN RunEnd(t, i + 1, S) ELSE i

SkipWhitespace(t, i) == RunEnd(t, i, Whitespace)

\* the position estree reports for an offset: 1-indexed line, 0-indexed column
EstreePosition(t, offset) ==
    [line |-> LineOf(t, offset) + 1, column |-> ColumnOf(t, offset)]

NodeLoc(t, from, to) ==
    [start |-> EstreePosition(t, from), end |-> EstreePosition(t, to)]

SyntaxError == [ok |-> FALSE]

Parsed(node, from, next) == [ok |-> TRUE, node |-> node, from |-> from, next |-> next]

\* the binary operators, loosest last
BinaryOperators == <<<<"*">>, <<"&", "&">>>>

RECURSIVE ParseLevel(_, _, _)
RECURSIVE AfterLeft(_, _, _)
RECURSIVE BinaryRest(_, _, _, _, _)
RECURSIVE AfterRight(_, _, _, _, _, _)
RECURSIVE ParseUnary(_, _)
RECURSIVE AfterOperand(_, _, _)
RECURSIVE AfterPrimary(_, _)
RECURSIVE ParsePostfix(_, _, _, _)
RECURSIVE AfterIndex(_, _, _, _)
RECURSIVE AfterCallArguments(_, _, _, _)
RECURSIVE ParsePrimary(_, _)
RECURSIVE AfterParenthesised(_, _, _)
RECURSIVE ParseArguments(_, _, _)
RECURSIVE AfterArgument(_, _, _, _)

ParseExpr(t, i) == ParseLevel(t, Len(BinaryOperators), i)

\* an expression of the operators up to the given level
ParseLevel(t, level, i) ==
    IF level = 0
    THEN ParseUnary(t, i)
    ELSE AfterLeft(t, level, ParseLevel(t, level - 1, i))

\* the rest of an expression of the level whose first operand is left
AfterLeft(t, level, left) ==
    IF left.ok
    THEN BinaryRest(t, level, left.node, left.from, left.next)
    ELSE SyntaxError

\* the operators of the level that follow the operand left, left to right
BinaryRest(t, level, left, from, i) ==
    LET at == SkipWhitespace(t, i)
        op == BinaryOperators[level]
    IN  IF OccursAt(t, op, at)
        THEN AfterRight(t, level, left, from, op,
                        ParseLevel(t, level - 1, at + Len(op)))
        ELSE Parsed(left, from, i)

\* left op right, and the operators of the level that follow it
AfterRight(t, level, left, from, op, right) ==
    IF right.ok
    THEN BinaryRest(t, level,
             [type |-> IF op = <<"&", "&">> THEN "LogicalExpression"
                                            ELSE "BinaryExpression",
              left |-> left, right |-> right.node,
              loc |-> NodeLoc(t, from, right.next)],
             from, right.next)
    ELSE SyntaxError

ParseUnary(t, i) ==
    LET at == SkipWhitespace(t, i)
    IN  IF Peek(t, at) \in {"!", "~"}
        THEN AfterOperand(t, at, ParseUnary(t, at + 1))
        ELSE AfterPrimary(t, ParsePrimary(t, at))

\* the unary expression of the operator at index at and its operand
AfterOperand(t, at, argument) ==
    IF argument.ok
    THEN Parsed([type |-> "UnaryExpression", operator |-> Peek(t, at),
                 argument |-> argument.node,
                 loc |-> NodeLoc(t, at, argument.next)],
                at, argument.next)
    ELSE SyntaxError

AfterPrimary(t, primary) ==
    IF primary.ok
    THEN ParsePostfix(t, primary.node, primary.from, primary.next)
    ELSE SyntaxError

\* an identifier, a number or a parenthesised expression at i
ParsePrimary(t, i) ==
    LET c == Peek(t, i)
    IN  IF c \in Letters THEN
            LET end == RunEnd(t, i, Letters \cup Digits)
            IN  Parsed([type |-> "Identifier", name |-> Slice(t, i, end),
                        loc |-> NodeLoc(t, i, end)], i, end)
        ELSE IF c \in Digits \/ (c = "." /\ Peek(t, i + 1) \in Digits) THEN
            LET whole == RunEnd(t, i, Digits)
                end   == IF Peek(t, whole) = "." THEN RunEnd(t, whole + 1, Digits) ELSE whole
            IN  IF Peek(t, end) \in Letters
                THEN SyntaxError    \* an identifier starts right after a number
                ELSE Parsed([type |-> "Literal", raw |-> Slice(t, i, end),
                             loc |-> NodeLoc(t, i, end)], i, end)
        ELSE IF c = "(" THEN AfterParenthesised(t, i, ParseExpr(t, i + 1))
        ELSE SyntaxError

\* the expression inner in the parentheses opened at i
AfterParenthesised(t, i, inner) ==
    IF inner.ok /\ Peek(t, SkipWhitespace(t, inner.next)) = ")"
    THEN Parsed(inner.node, i, SkipWhitespace(t, inner.next) + 1)
    ELSE SyntaxError

\* the member accesses and calls that follow the expression node
ParsePostfix(t, node, from, i) ==
    LET at == SkipWhitespace(t, i)
        c  == Peek(t, at)
    IN  IF c = "." THEN
            LET nameAt == SkipWhitespace(t, at + 1)
                end    == RunEnd(t, nameAt, Letters \cup Digits)
            IN  IF Peek(t, nameAt) \in Letters
                THEN ParsePostfix(t,
                         [type |-> "MemberExpression", object |-> node,
                          property |-> [type |-> "Identifier",
                                        name |-> Slice(t, nameAt, end),
                                        loc |-> NodeLoc(t, nameAt, end)],
                          computed |-> FALSE, loc |-> NodeLoc(t, from, end)],
                         from, end)
                ELSE SyntaxError
        ELSE IF c = "[" THEN AfterIndex(t, node, from, ParseExpr(t, at + 1))
        ELSE IF c = "(" THEN
            AfterCallArguments(t, node, from, ParseArguments(t, at + 1, <<>>))
        ELSE Parsed(node, from, i)

\* node[inner], and what follows it
AfterIndex(t, node, from, inner) ==
    IF inner.ok /\ Peek(t, SkipWhitespace(t, inner.next)) = "]"
    THEN ParsePostfix(t,
             [type |-> "MemberExpression", object |-> node,
              property |-> inner.node, computed |-> TRUE,
              loc |-> NodeLoc(t, from, SkipWhitespace(t, inner.next) + 1)],
             from, SkipWhitespace(t, inner.next) + 1)
    ELSE SyntaxError

\* node(arguments), and what follows it
AfterCallArguments(t, node, from, arguments) ==
    IF arguments.ok
    THEN ParsePostfix(t,
             [type |-> "CallExpression", callee |-> node,
              arguments |-> arguments.node,
              loc |-> NodeLoc(t, from, arguments.next)],
             from, arguments.next)
    ELSE SyntaxError

\* the arguments of a call after its ( or after a comma, up to its )
ParseArguments(t, i, arguments) ==
    LET at == SkipWhitespace(t, i)
    IN  IF Peek(t, at) = ")" /\ arguments = <<>>
        THEN Parsed(arguments, i, at + 1)
        ELSE AfterArgument(t, i, arguments, ParseExpr(t, at))

\* the arguments with one more argument, and the ones that follow it
AfterArgument(t, i, arguments, argument) ==
    IF ~argument.ok THEN SyntaxError
    ELSE LET after == SkipWhitespace(t, argument.next)
         IN  IF Peek(t, after) = ")"
             THEN Parsed(Append(arguments, argument.node), i, after + 1)
             ELSE IF Peek(t, after) = ","
             THEN ParseArguments(t, after + 1, Append(arguments, argument.node))
             ELSE SyntaxError

RECURSIVE ParseStatements(_, _, _)
RECURSIVE AfterExpression(_, _, _, _)

\* the statements from i on, after the statements of body
ParseStatements(t, i, body) ==
    LET at == SkipWhitespace(t, i)
    IN  IF at >= Len(t) THEN Parsed(body, 0, at)
        ELSE IF Peek(t, at) = ";" THEN
            ParseStatements(t, at + 1,
                Append(body, [type |-> "EmptyStatement", loc |-> NodeLoc(t, at, at + 1)]))
        ELSE AfterExpression(t, at, body, ParseExpr(t, at))

\* the statement of the expression at index at, and the statements after it:
\* a statement ends at the end of the text, at a ; or at a line break
AfterExpression(t, at, body, expression) ==
    IF ~expression.ok THEN SyntaxError
    ELSE LET after == SkipWhitespace(t, expression.next)
             statement ==
                 [type |-> "ExpressionStatement", expression |-> expression.node,
                  loc |-> NodeLoc(t, at, expression.next)]
         IN  IF after >= Len(t) THEN Parsed(Append(body, statement), 0, after)
             ELSE IF Peek(t, after) = ";"
             THEN ParseStatements(t, after + 1, Append(body, statement))
             ELSE IF \E k \in expression.next..(after - 1) : Peek(t, k) = Newline
             THEN ParseStatements(t, after, Append(body, statement))
             ELSE SyntaxError

\* the result of parseJs for the statements parsed
JsParseResult(contents, file, locationOffset, warningCode, statements) ==
    IF statements.ok
    THEN [type    |-> "success",
          program |-> [type |-> "Program", body |-> statements.node,
                       loc |-> NodeLoc(contents, 0, Len(contents))]]
    ELSE [type    |-> "failure",
          warning |-> [code        |-> warningCode,
                       message     |-> [text |-> "SyntaxError", arg |-> ""],
                       sourceRange |-> CorrectSourceRange(
                           [file  |-> file,
                            start |-> [line |-> 0, column |-> 0],
                            end   |-> [line |-> 0, column |-> 0]],
                           locationOffset),
                       severity    |-> "WARNING"]]

\* parseJs(contents, file, locationOffset, warningCode)
ParseJs(contents, file, locationOffset, warningCode) ==
    JsParseResult(contents, file, locationOffset, warningCode,
                  ParseStatements(contents, 0, <<>>))

----------------------------------------------------------------------------
(* parseExpression                                                         *)

\* the value undefined, as a parse result
Undefined == [type |-> "undefined"]

\* the same pattern anchored at the end of the content
HatchPatternAtEnd(content) ==
    \E i \in 0..(Len(content) - 2) :
        /\ CharAt(content, i) = "."
        /\ \/ CharAt(content, i + 1) = "*" /\ i + 2 = Len(content)
           \/ RunEnd(content, i + 1, Digits) > i + 1 /\
              RunEnd(content, i + 1, Digits) = Len(content)

\* /\.(\*|\d+)/.test(content): a dot followed by * or a digit, anywhere
HatchPatternTest(content) ==
    \E i \in 0..(Len(content) - 2) :
        /\ CharAt(content, i) = "."
        /\ \/ CharAt(content, i + 1) = "*"
           \/ RunEnd(content, i + 1, Digits) > i + 1

\* the end of parseExpression: the parse result, or undefined for a failure
\* on a content that the pattern matches
ResultOrUndefined(content, result) ==
    IF result.type = "success" THEN result
    ELSE IF HatchPatternTest(content) THEN Undefined
    ELSE result

ParseExpression(content, expressionSourceRange) ==
    ResultOrUndefined(content,
        ParseJs(content, expressionSourceRange.file,
                [line |-> expressionSourceRange.start.line,
                 col  |-> expressionSourceRange.start.column],
                "polymer-expression-parse-error"))

----------------------------------------------------------------------------
(* Specification SpecParse: parseExpression applied to every content built  *)
(* from at most MaxContentAtoms pieces of paths, numbers and calls.         *)

MaxContentAtoms == 4

ContentAtoms ==
    {<<"a">>, <<"0">>, <<".">>, <<".", "0">>, <<".", "*">>, <<"(">>, <<")">>}

Contents(atoms, n) == {Concat(ps) : ps \in SeqsUpTo(atoms, n)}

InitParse ==
    /\ pc = "parse"
    /\ str \in Contents(ContentAtoms, MaxContentAtoms)
    /\ parseResult = Unused
    /\ ScanUnused
    /\ RangeUnused
    /\ ExprUnused
    /\ ExtractUnused
    /\ WalkUnused

ParseContent ==
    /\ pc = "parse"
    /\ parseResult' = ParseExpression(str, ExprRange)
    /\ pc' = "parsed"
    /\ UNCHANGED <<str, scanVars, rangeVars, exprVars, extractVars, walkVars>>

NextParse == ParseContent

SpecParse == InitParse /\ [][NextParse]_vars

\* what the expression-language parser says of the content
JsParseOf(content) ==
    ParseJs(content, ExprRange.file, LocationOffsetOf(ExprRange),
            "polymer-expression-parse-error")

\* the content holds, anywhere, a dot directly followed by * or by a digit
HoldsPathSegment(content) ==
    \E k \in 1..(Len(content) - 1) :
        content[k] = "." /\ content[k + 1] \in Digits \cup {"*"}

\* the content ends with .* or with a dot and digits
EndsWithPathSegment(content) ==
    \E k \in 1..(Len(content) - 1) :
        /\ content[k] = "."
        /\ \/ k + 1 = Len(content) /\ content[k + 1] = "*"
           \/ \A j \in (k + 1)..Len(content) : content[j] \in Digits

IsParseFailure(result) ==
    /\ result.type = "failure"
    /\ result.warning.code = "polymer-expression-parse-error"

\* C4 as stated: an unparseable body is dropped without a diagnostic exactly
\* when it ends with a path segment .* or .<digits>.
C4_AsStated ==
    (pc = "parsed" /\ JsParseOf(str).type = "failure") =>
        /\ parseResult.type = "undefined" <=> EndsWithPathSegment(str)
        /\ parseResult.type # "undefined" => IsParseFailure(parseResult)

\* C4 (amended): an unparseable body is dropped without a diagnostic exactly
\* when it holds, anywhere, a dot directly followed by * or by a digit; every
\* other unparseable body gives the one parse-failure warning, and a body
\* that parses is returned as parsed.
C4_EscapeHatch ==
    pc = "parsed" =>
        /\ JsParseOf(str).type = "failure" =>
              /\ parseResult.type = "undefined" <=> HoldsPathSegment(str)
              /\ parseResult.type # "undefined" =>
                    /\ IsParseFailure(parseResult)
                    /\ parseResult = JsParseOf(str)
        /\ JsParseOf(str).type = "success" => parseResult = JsParseOf(str)

\* a.0.a does not parse and is dropped although .0 is not at its end
C4_Witness ==
    /\ pc = "parsed"
    /\ str = <<"a", ".", "0", ".", "a">>
    /\ JsParseOf(str).type = "failure"
    /\ parseResult.type = "undefined"


----------------------------------------------------------------------------
(* The extractors of the three binding sites                               *)

\* let eventName = undefined
NoEventName == <<"undefined">>

\* the characters that . of a regular expression does not match
LineTerminators == {Newline}

EventNameSeparator == <<":", ":">>

\* expressionText.match(/(.*)::(.*)/): the leftmost match starts the first
\* line that holds a ::, its first group runs greedily to the last :: of that
\* line and its second group to the end of the line
EventNameMatch(text) ==
    LET first == IndexOf(text, EventNameSeparator, 0)
    IN  IF first = -1
        THEN [matched |-> FALSE]
        ELSE LET lineStart ==
                     Max({0} \cup {j + 1 : j \in {i \in 0..(first - 1) :
                                                CharAt(text, i) \in LineTerminators}})
                 lineEnd ==
                     Min({Len(text)} \cup {i \in first..(Len(text) - 1) :
                                              CharAt(text, i) \in LineTerminators})
                 last == Max({q \in first..(lineEnd - 2) :
                                 OccursAt(text, EventNameSeparator, q)})
             IN  [matched |-> TRUE,
                  groups  |-> <<Slice(text, lineStart, last),
                                Slice(text, last + 2, lineEnd)>>]

\* the expressionText and eventName that extractDataBindingsFromAttr works
\* with for one binding
SplitEventName(dataBinding) ==
    LET match == EventNameMatch(dataBinding.expressionText)
    IN  IF dataBinding.direction = "{" /\ match.matched
        THEN [expressionText |-> match.groups[1], eventName |-> match.groups[2]]
        ELSE [expressionText |-> dataBinding.expressionText,
              eventName      |-> NoEventName]

IsFullAttributeBinding(dataBinding, value) ==
    dataBinding.startIndex = 2 /\ dataBinding.endIndex + 2 = Len(value)

NewAttributeDatabindingExpression(astNode, isCompleteBinding, direction, eventName, attribute, range, expressionText, ast) ==
    NewDatabindingExpression(range, expressionText, ast) @@
    [astNode           |-> astNode,
     databindingInto   |-> "attribute",
     isCompleteBinding |-> isCompleteBinding,
     direction         |-> direction,
     eventName         |-> eventName,
     attribute         |-> attribute]

NewTextNodeDatabindingExpression(direction, astNode, range, expressionText, ast) ==
    NewDatabindingExpression(range, expressionText, ast) @@
    [direction |-> direction, astNode |-> astNode, databindingInto |-> "text-node"]

NewJavascriptDatabindingExpression(astNode, range, expressionText, ast) ==
    NewDatabindingExpression(range, expressionText, ast) @@
    [astNode |-> astNode, databindingInto |-> "javascript"]

\* an extractor that keeps only the expressions without a warning
PushExpressionIfClean(out, expression) ==
    [out EXCEPT !.warnings = @ \o expression.warnings,
                !.results  = IF expression.warnings = <<>>
                             THEN Append(@, expression) ELSE @]

\* for (const warning of expression.warnings) warnings.push(warning);
\* results.push(expression)
PushExpression(out, expression) ==
    [out EXCEPT !.warnings = @ \o expression.warnings,
                !.results  = Append(@, expression)]

\* a loop that stops at the first binding that fails to parse
AbortAfterFailure(k, result, n) ==
    IF result.type = "failure" THEN n + 1 ELSE k + 1

\* for (const dataBinding of dataBindings): the binding after the k-th of n,
\* whatever the k-th one's parse result was
NextBinding(k, result, n) == k + 1

\* correctSourceRange(indexesToSourceRange(dataBinding.startIndex,
\* dataBinding.endIndex, file, newlineIndexes), offset of the value's range)
SourceRangeOfBinding(dataBinding, valueRange, newlineIndexes) ==
    CorrectSourceRange(
        IndexesToSourceRange(dataBinding.startIndex, dataBinding.endIndex,
                             valueRange.file, newlineIndexes),
        LocationOffsetOf(valueRange))

RECURSIVE TextNodeLoop(_, _, _, _, _, _)
RECURSIVE TextNodeSettle(_, _, _, _, _, _, _, _)

\* the for loop of extractDataBindingsFromTextNode from the k-th binding on:
\* the source range and the parse result of the k-th binding
TextNodeLoop(node, nodeSourceRange, newlineIndexes, found, k, out) ==
    IF k > Len(found) THEN out
    ELSE LET range == SourceRangeOfBinding(found[k], nodeSourceRange, newlineIndexes)
         IN  TextNodeSettle(node, nodeSourceRange, newlineIndexes, found, k, out, range,
                            ParseExpression(found[k].expressionText, range))

\* the rest of the iteration, for the parse result of the k-th binding, and
\* the iterations after it
TextNodeSettle(node, nodeSourceRange, newlineIndexes, found, k, out, range, result) ==
    LET dataBinding == found[k]
        seen == [out EXCEPT !.locals =
                    Append(@, [dataBinding    |-> dataBinding,
                               expressionText |-> dataBinding.expressionText,
                               sourceRange    |-> range,
                               parseResult    |-> result])]
        after ==
            IF result.type = "undefined" THEN seen
            ELSE IF result.type = "failure"
            THEN [seen EXCEPT !.warnings = Append(@, result.warning)]
            ELSE PushExpression(seen,
                     NewTextNodeDatabindingExpression(
                         dataBinding.direction, node, range,
                         dataBinding.expressionText, result.program))
    IN  TextNodeLoop(node, nodeSourceRange, newlineIndexes, found,
                     NextBinding(k, result, Len(found)), after)

RECURSIVE AttrLoop(_, _, _, _, _, _, _)
RECURSIVE AttrSettle(_, _, _, _, _, _, _, _, _, _)

\* the for loop of extractDataBindingsFromAttr from the k-th binding on: the
\* split, the source range and the parse result of the k-th binding
AttrLoop(node, attr, attributeValueRange, newlineIndexes, found, k, out) ==
    IF k > Len(found) THEN out
    ELSE LET split == SplitEventName(found[k])
             range == SourceRangeOfBinding(found[k], attributeValueRange, newlineIndexes)
         IN  AttrSettle(node, attr, attributeValueRange, newlineIndexes, found, k, out,
                        split, range, ParseExpression(split.expressionText, range))

\* the rest of the iteration, for the parse result of the k-th binding, and
\* the iterations after it
AttrSettle(node, attr, attributeValueRange, newlineIndexes, found, k, out, split, range, result) ==
    LET dataBinding == found[k]
        isFullAttributeBinding == IsFullAttributeBinding(dataBinding, attr.value)
        seen == [out EXCEPT !.locals =
                    Append(@, [dataBinding    |-> dataBinding,
                               expressionText |-> split.expressionText,
                               eventName      |-> split.eventName,
                               sourceRange    |-> range,
                               parseResult    |-> result])]
        after ==
            IF result.type = "undefined" THEN seen
            ELSE IF result.type = "failure"
            THEN [seen EXCEPT !.warnings = Append(@, result.warning)]
            ELSE PushExpression(seen,
                     NewAttributeDatabindingExpression(
                         node, isFullAttributeBinding, dataBinding.direction,
                         split.eventName, attr, range, split.expressionText,
                         result.program))
    IN  AttrLoop(node, attr, attributeValueRange, newlineIndexes, found,
                 NextBinding(k, result, Len(found)), after)

\* the source range of a text or an attribute value that starts at the given
\* line and column of the document
RangeInDocument(line, column, value) ==
    [file  |-> FileName,
     start |-> [line |-> line, column |-> column],
     end   |-> [line |-> line + Len(FindNewlineIndexes(value)),
                column |-> column + Len(value)]]

\* document.sourceRangeForNode(node) of a node that the document has a
\* location for
SourceRangeOfNode(node) == node.location

\* document.sourceRangeForAttributeValue(node, attr.name, true) of an
\* attribute that the document has a location for
SourceRangeOfAttributeValue(node, attr) == attr.valueLocation

\* what extractDataBindingsFromTextNode leaves in results and warnings, with
\* the local values of its loop
TextNodeOutcome(node, hasRange, out) ==
    LET text == node.value
        found == FindDatabindingInString(text)
    IN  IF found = <<>> THEN out
        ELSE IF ~hasRange THEN out
        ELSE TextNodeLoop(node, SourceRangeOfNode(node), FindNewlineIndexes(text),
                          found, 1, out)

\* what extractDataBindingsFromAttr leaves in results and warnings
AttrOutcome(node, attr, hasRange, out) ==
    IF attr.value = <<>> THEN out
    ELSE IF ~hasRange THEN out
    ELSE AttrLoop(node, attr, SourceRangeOfAttributeValue(node, attr),
                  FindNewlineIndexes(attr.value),
                  FindDatabindingInString(attr.value), 1, out)

\* the end of parseExpressionInJsStringLiteral, for the parse result of the
\* literal's text
JsLiteralSettle(stringLiteral, range, expressionText, parsed) ==
    [databinding |->
         IF parsed.type = "success"
         THEN NewJavascriptDatabindingExpression(
                  stringLiteral, range, expressionText, parsed.program)
         ELSE Undefined,
     warnings    |-> IF parsed.type = "failure" THEN <<parsed.warning>> ELSE <<>>,
     locals      |-> <<[expressionText |-> expressionText,
                        sourceRange    |-> range,
                        parseResult    |-> parsed]>>]

\* parseExpressionInJsStringLiteral: its result.databinding and warnings,
\* with the local values of the parse when it gets that far
JsLiteralOutcome(stringLiteral, sourceRangeForLiteral) ==
    IF stringLiteral.type # "Literal" THEN
        [databinding |-> Undefined,
         warnings    |-> <<[code        |-> "unanalyzable-polymer-expression",
                            message     |-> [text |-> "Can only analyze databinding expressions in string literals.",
                                             arg  |-> ""],
                            severity    |-> "INFO",
                            sourceRange |-> sourceRangeForLiteral]>>,
         locals      |-> <<>>]
    ELSE IF stringLiteral.value.typeof # "string" THEN
        [databinding |-> Undefined,
         warnings    |-> <<[code        |-> "invalid-polymer-expression",
                            message     |-> [text |-> "Expected a string, got a",
                                             arg  |-> stringLiteral.value.typeof],
                            sourceRange |-> sourceRangeForLiteral,
                            severity    |-> "WARNING"]>>,
         locals      |-> <<>>]
    ELSE LET expressionText == stringLiteral.value.text
             range ==
                 [file  |-> sourceRangeForLiteral.file,
                  start |-> [column |-> sourceRangeForLiteral.start.column + 1,
                             line   |-> sourceRangeForLiteral.start.line],
                  end   |-> [column |-> sourceRangeForLiteral.end.column - 1,
                             line   |-> sourceRangeForLiteral.end.line]]
         IN  JsLiteralSettle(stringLiteral, range, expressionText,
                             ParseExpression(expressionText, range))

----------------------------------------------------------------------------
(* Specification SpecExtract: each extractor applied once, to a text node  *)
(* or an attribute whose value is made of at most MaxSegments segments     *)
(* (a binding of either direction around one of BindingBodies, or plain    *)
(* text), with and without a source range in the document, and to a        *)
(* JavaScript node that is a string literal, a number or an identifier.    *)

MaxSegments == 2

BindingBodies ==
    {<<"a">>,
     <<>>,
     <<"a", "&", "&", "b">>,
     <<"a", "(", "b", "(", ")", ")">>,
     <<"(">>,
     <<"a", ".", "0">>,
     <<"a", ":", ":", "b">>,
     <<"a", ":", ":", "(">>,
     <<"a", Newline, ":", ":", "b">>,
     <<"a", ":", ":", "b", Newline, "a">>}

Segments ==
    {<<"x">>} \cup {MustacheOpen \o body \o MustacheClose : body \in BindingBodies}
              \cup {BracketOpen \o body \o BracketClose : body \in BindingBodies}

\* a text node, with its location in the document
TextNode(value, location) ==
    [nodeName |-> "#text", value |-> value, location |-> location]

\* an attribute, with the location of its value in the document
Attribute(name, value, valueLocation) ==
    [name |-> name, value |-> value, valueLocation |-> valueLocation]

\* the text or attribute value of the specification starts at line 2, column
\* 3 of the document
SiteRange(value) == RangeInDocument(2, 3, value)

SiteTextNode == TextNode(str, SiteRange(str))

SiteAttribute == Attribute("foo", str, SiteRange(str))

SiteElement == [nodeName |-> "div", tagName |-> "div", attrs |-> <<SiteAttribute>>]

StringLiteral(text) ==
    [type |-> "Literal", value |-> [typeof |-> "string", text |-> text]]

JsNodes ==
    {StringLiteral(body) : body \in BindingBodies}
        \cup {[type |-> "Literal", value |-> [typeof |-> "number", number |-> 7]],
              [type |-> "Identifier", name |-> <<"a">>]}

\* the literal with its quotes, in the JavaScript document
JsLiteralRange(node) ==
    SiteRange(
        IF node.type = "Literal" /\ node.value.typeof = "string"
        THEN <<"'">> \o node.value.text \o <<"'">>
        ELSE <<"7">>)

InitExtract ==
    /\ pc = "extract"
    /\ \/ /\ site \in {"text-node", "attribute"}
          /\ str \in Contents(Segments, MaxSegments)
          /\ locatable \in BOOLEAN
          /\ literal = Unused
          /\ databinding = Unused
       \/ /\ site = "javascript"
          /\ str = <<>>
          /\ locatable = TRUE
          /\ literal \in JsNodes
          /\ databinding = Undefined
    /\ dataBindings = <<>>
    /\ locals = <<>>
    /\ results = <<>>
    /\ warnings = <<>>
    /\ ScanUnused
    /\ RangeUnused
    /\ ExprUnused
    /\ ParseUnused
    /\ WalkUnused

ExtractDataBindingsFromTextNode ==
    /\ pc = "extract"
    /\ site = "text-node"
    /\ \E out \in {TextNodeOutcome(SiteTextNode, locatable,
                      [results |-> results, warnings |-> warnings, locals |-> <<>>])} :
           /\ dataBindings' = FindDatabindingInString(str)
           /\ results' = out.results
           /\ warnings' = out.warnings
           /\ locals' = out.locals
    /\ pc' = "extracted"
    /\ UNCHANGED <<str, scanVars, rangeVars, exprVars, parseVars, walkVars, siteVars, databinding>>

ExtractDataBindingsFromAttr ==
    /\ pc = "extract"
    /\ site = "attribute"
    /\ \E out \in {AttrOutcome(SiteElement, SiteAttribute, locatable,
                      [results |-> results, warnings |-> warnings, locals |-> <<>>])} :
           /\ dataBindings' = IF str = <<>> THEN <<>>
                              ELSE FindDatabindingInString(str)
           /\ results' = out.results
           /\ warnings' = out.warnings
           /\ locals' = out.locals
    /\ pc' = "extracted"
    /\ UNCHANGED <<str, scanVars, rangeVars, exprVars, parseVars, walkVars, siteVars, databinding>>

ParseExpressionInJsStringLiteral ==
    /\ pc = "extract"
    /\ site = "javascript"
    /\ \E result \in {JsLiteralOutcome(literal, JsLiteralRange(literal))} :
           /\ databinding' = result.databinding
           /\ warnings' = result.warnings
           /\ locals' = result.locals
    /\ pc' = "extracted"
    /\ UNCHANGED <<str, scanVars, rangeVars, exprVars, parseVars, walkVars, siteVars, dataBindings, results>>

NextExtract ==
    \/ ExtractDataBindingsFromTextNode
    \/ ExtractDataBindingsFromAttr
    \/ ParseExpressionInJsStringLiteral

SpecExtract == InitExtract /\ [][NextExtract]_vars

Extracted == pc = "extracted"

HtmlSite == site \in {"text-node", "attribute"}

RangeOf(seq) == {seq[k] : k \in 1..Len(seq)}

ParsedOk(local) == local.parseResult.type = "success"

IsParseFailureWarning(warning) == warning.code = "polymer-expression-parse-error"

\* the text of a scanned binding that the extractor of the site parses
ParsedTextOf(dataBinding) ==
    IF site = "attribute"
    THEN SplitEventName(dataBinding).expressionText
    ELSE dataBinding.expressionText

\* how parseExpression settles a scanned binding: "success", "failure" or
\* "undefined"
OutcomeOf(dataBinding) ==
    ParseExpression(ParsedTextOf(dataBinding), SiteRange(str)).type

BindingsWithOutcome(found, type) ==
    SelectSeq(found, LAMBDA dataBinding : OutcomeOf(dataBinding) = type)

\* C3 as the claim states it: the returned expressions of a text node or an
\* attribute are only those that passed validation without a warning
C3_AsStated ==
    Extracted /\ HtmlSite =>
        \A k \in 1..Len(results) : results[k].warnings = <<>>

\* C3: in the text-node and attribute extractors every processed binding
\* whose body parses adds one expression to the returned expressions, in
\* order, whether or not the grammar validation warned about it; the
\* validation warnings of each returned expression are also in the returned
\* warnings; a processed binding adds no expression only when its body does
\* not parse
C3_ParsedBindingsAreKept ==
    Extracted /\ HtmlSite =>
        LET kept == SelectSeq(locals, ParsedOk)
        IN  /\ Len(results) = Len(kept)
            /\ \A k \in 1..Len(kept) :
                   /\ results[k].expressionText = kept[k].expressionText
                   /\ results[k].sourceRange = kept[k].sourceRange
                   /\ results[k].warnings =
                          NewDatabindingExpression(
                              kept[k].sourceRange, kept[k].expressionText,
                              kept[k].parseResult.program).warnings
                   /\ RangeOf(results[k].warnings) \subseteq RangeOf(warnings)

\* the attribute {{a&&b}}: its expression is returned with its warning
C3_Witness ==
    /\ Extracted
    /\ site = "attribute"
    /\ str = MustacheOpen \o <<"a", "&", "&", "b">> \o MustacheClose
    /\ Len(results) = 1
    /\ Len(results[1].warnings) = 1
    /\ warnings = results[1].warnings

\* C5 as the claim states it: in extractDataBindingsFromAttr a mustache
\* binding whose raw text holds :: is split so that expression text, ::
\* and eventName put together are the raw text again, and the expression
\* text is what is parsed; a bracket binding keeps its raw text and has no
\* eventName
C5_AsStated ==
    Extracted /\ site = "attribute" =>
        \A k \in 1..Len(locals) :
            LET raw == locals[k].dataBinding.expressionText
            IN  /\ locals[k].dataBinding.direction = "{"
                       /\ IndexOf(raw, EventNameSeparator, 0) # -1 =>
                       /\ locals[k].expressionText \o EventNameSeparator
                              \o locals[k].eventName = raw
                       /\ locals[k].parseResult =
                              ParseExpression(locals[k].expressionText,
                                              locals[k].sourceRange)
                /\ locals[k].dataBinding.direction = "[" =>
                       /\ locals[k].expressionText = raw
                       /\ locals[k].eventName = NoEventName

\* C6 as the claim states it: the expressions, parse-failure warnings and
\* silent drops of a text node or attribute value add up to the number of
\* its scanned bindings
C6_AsStated ==
    Extracted /\ HtmlSite =>
        LET found == FindDatabindingInString(str)
        IN  Len(results) + Len(SelectSeq(warnings, IsParseFailureWarning))
                + Len(BindingsWithOutcome(found, "undefined")) = Len(found)

\* C6: when the document has a source range for the text node or the
\* attribute value, every scanned binding is processed, in order, whatever
\* became of the bindings before it: the bindings that parse give the
\* returned expressions, the ones that fail give one parse-failure warning
\* each, the escape-hatch ones nothing, so the three add up to the number of
\* scanned bindings; without a source range nothing is processed and
\* nothing returned
C6_EveryBindingYieldsOneOutcome ==
    Extracted /\ HtmlSite =>
        LET found == FindDatabindingInString(str)
            kept  == BindingsWithOutcome(found, "success")
            parseFailures == SelectSeq(warnings, IsParseFailureWarning)
        IN  IF locatable
            THEN /\ Len(locals) = Len(found)
                 /\ \A k \in 1..Len(found) : locals[k].dataBinding = found[k]
                 /\ Len(results) = Len(kept)
                 /\ \A k \in 1..Len(kept) :
                        results[k].expressionText = ParsedTextOf(kept[k])
                 /\ Len(parseFailures) = Len(BindingsWithOutcome(found, "failure"))
                 /\ Len(results) + Len(parseFailures)
                        + Len(BindingsWithOutcome(found, "undefined")) = Len(found)
            ELSE locals = <<>> /\ results = <<>> /\ warnings = <<>>

\* the text {{(}}{{a}}: the first binding fails to parse, the second one is
\* returned
C6_Witness ==
    /\ Extracted
    /\ site = "text-node"
    /\ locatable
    /\ str = MustacheOpen \o <<"(">> \o MustacheClose
                 \o MustacheOpen \o <<"a">> \o MustacheClose
    /\ Len(results) = 1
    /\ results[1].expressionText = <<"a">>
    /\ Len(warnings) = 1
    /\ IsParseFailureWarning(warnings[1])

\* C9 as the claim states it: in each of the three extractors every warning
\* in the warnings field of a returned expression is also in the returned
\* warnings
C9_AsStated ==
    Extracted =>
        IF HtmlSite
        THEN \A k \in 1..Len(results) :
                 RangeOf(results[k].warnings) \subseteq RangeOf(warnings)
        ELSE Len(locals) = 1 /\ ParsedOk(locals[1]) =>
                 RangeOf(databinding.warnings) \subseteq RangeOf(warnings)

----------------------------------------------------------------------------
(* Template location and the walk: dom5 over a parse5 tree.  A node is a   *)
(* record.  An element has tagName = nodeName, attrs and childNodes; a     *)
(* template element has no childNodes of its own and a content fragment    *)
(* that holds them; a text node has a value.  Every node has its path from *)
(* the document: the index of the child taken at each step, 0 for the step *)
(* from a template to its content.                                         *)

HasField(node, field) == field \in DOMAIN node

\* dom5.isTextNode
IsTextNode(node) == node.nodeName = "#text"

\* dom5.isElement
IsElement(node) == HasField(node, "tagName") /\ node.nodeName = node.tagName

\* dom5.predicates.hasTagName
HasTagName(node, name) == HasField(node, "tagName") /\ node.tagName = name

\* dom5.predicates.hasAttrValue
HasAttrValue(node, name, value) ==
    /\ HasField(node, "attrs")
    /\ \E j \in 1..Len(node.attrs) :
           node.attrs[j].name = name /\ node.attrs[j].value = value

\* dom5.defaultChildNodes and dom5.childNodesIncludeTemplate
GetChildNodes(accessor, node) ==
    IF accessor = "childNodesIncludeTemplate" /\ node.nodeName = "template"
    THEN node.content.childNodes
    ELSE IF HasField(node, "childNodes") THEN node.childNodes
    ELSE <<>>

RECURSIVE NodeWalkAll(_, _)
RECURSIVE WalkChildren(_, _, _)

\* dom5.nodeWalkAll: the nodes handed to its predicate, in order
NodeWalkAll(node, accessor) ==
    <<node>> \o WalkChildren(GetChildNodes(accessor, node), 1, accessor)

\* nodeWalkAll of the children from the k-th on
WalkChildren(childNodes, k, accessor) ==
    IF k > Len(childNodes) THEN <<>>
    ELSE NodeWalkAll(childNodes[k], accessor) \o WalkChildren(childNodes, k + 1, accessor)

RECURSIVE Descend(_, _, _)
\* the node that the steps of the path from the k-th on lead to
Descend(node, path, k) ==
    IF k > Len(path) THEN node
    ELSE IF path[k] = 0 THEN Descend(node.content, path, k + 1)
    ELSE Descend(node.childNodes[path[k]], path, k + 1)

NodeAt(doc, path) == Descend(doc, path, 1)

\* node.parentNode !== undefined: the document and a template's content
\* fragment have no parent
HasParent(node) == node.path # <<>> /\ node.path[Len(node.path)] # 0

\* node.parentNode
ParentNode(doc, node) == NodeAt(doc, SubSeq(node.path, 1, Len(node.path) - 1))

RECURSIVE ParentMatches(_, _, _)
\* dom5.predicates.parentMatches(OR(hasTagName ...)): some node up the
\* parentNode chain has one of the tags
ParentMatches(doc, node, tags) ==
    /\ HasParent(node)
    /\ \E parent \in {ParentNode(doc, node)} :
           \/ \E name \in tags : HasTagName(parent, name)
           \/ ParentMatches(doc, parent, tags)

IsTemplate(node) == HasTagName(node, "template")

IsDataBindingTemplate(doc, node) ==
    /\ IsTemplate(node)
    /\ \/ HasAttrValue(node, "is", <<"d", "o", "m", "-", "b", "i", "n", "d">>)
       \/ HasAttrValue(node, "is", <<"d", "o", "m", "-", "i", "f">>)
       \/ HasAttrValue(node, "is", <<"d", "o", "m", "-", "r", "e", "p", "e", "a", "t">>)
       \/ ParentMatches(doc, node, {"dom-bind", "dom-if", "dom-repeat", "dom-module"})

\* dom5.queryAll(node, isDataBindingTemplate, [], childNodesIncludeTemplate):
\* the matching elements among the descendants of the node
GetAllDataBindingTemplates(doc, node) ==
    SelectSeq(WalkChildren(GetChildNodes("childNodesIncludeTemplate", node), 1,
                           "childNodesIncludeTemplate"),
              LAMBDA desc : IsElement(desc) /\ IsDataBindingTemplate(doc, desc))

\* a walk that enters the content of the templates it meets
WalkThroughTemplates == "childNodesIncludeTemplate"

\* dom5.nodeWalkAll(template.content, callback) is called without a
\* getChildNodes argument
WalkAccessor == "defaultChildNodes"

\* the call of an extractor on the node (attr 0: its text) or on its j-th
\* attribute
Visited(out, node, j) ==
    [out EXCEPT !.visits = Append(@, [path |-> node.path, attr |-> j])]

\* if (dom5.isTextNode(node) && node.value) extractDataBindingsFromTextNode
VisitText(node, out) ==
    IF IsTextNode(node) /\ node.value # <<>>
    THEN TextNodeOutcome(node, TRUE, Visited(out, node, 0))
    ELSE out

RECURSIVE VisitAttrs(_, _, _)
\* for (const attr of node.attrs) extractDataBindingsFromAttr
VisitAttrs(node, j, out) ==
    IF j > Len(node.attrs) THEN out
    ELSE VisitAttrs(node, j + 1,
                    AttrOutcome(node, node.attrs[j], TRUE, Visited(out, node, j)))

\* the callback of the walk
VisitNode(node, out) ==
    IF HasField(node, "attrs")
    THEN VisitAttrs(node, 1, VisitText(node, out))
    ELSE VisitText(node, out)

RECURSIVE VisitAll(_, _, _)
VisitAll(nodes, k, out) ==
    IF k > Len(nodes) THEN out
    ELSE VisitAll(nodes, k + 1, VisitNode(nodes[k], out))

RECURSIVE TemplatesLoop(_, _, _)
\* for (const template of templates) dom5.nodeWalkAll(template.content, ...)
TemplatesLoop(found, k, out) ==
    IF k > Len(found) THEN out
    ELSE TemplatesLoop(found, k + 1,
             VisitAll(NodeWalkAll(found[k].content, WalkAccessor), 1, out))

ExtractDataBindingsFromTemplates(found) ==
    TemplatesLoop(found, 1,
        [results |-> <<>>, warnings |-> <<>>, locals |-> <<>>, visits |-> <<>>])

----------------------------------------------------------------------------
(* Specification SpecWalk: scanDocumentForExpressions and                  *)
(* scanDatabindingTemplateForExpressions on every document of at most      *)
(* MaxDomNodes nodes, each a dom-module element, a template, a template    *)
(* is="dom-if" with an if attribute, or a text.  The children of a         *)
(* template are in its content, as parse5 puts them.                       *)

MaxDomNodes == 4

ContainerKinds == {"dom-module", "template", "dom-if-template"}

RECURSIVE DomTable(_)
\* the trees and the forests of exactly k nodes, for every k up to n
DomTable(n) ==
    IF n = 0
    THEN [trees |-> <<>>, forests |-> [k \in {0} |-> {<<>>}]]
    ELSE LET T == DomTable(n - 1)
             trees ==
                 [k \in 1..n |->
                     IF k < n THEN T.trees[k]
                     ELSE (IF n = 1 THEN {[kind |-> "#text", children |-> <<>>]} ELSE {})
                          \cup {[kind |-> kind, children |-> children] :
                                   kind \in ContainerKinds,
                                   children \in T.forests[n - 1]}]
         IN  [trees   |-> trees,
              forests |-> [k \in 0..n |->
                              IF k < n THEN T.forests[k]
                              ELSE UNION {{<<first>> \o rest :
                                              first \in trees[j],
                                              rest \in T.forests[n - j]} : j \in 1..n}]]

RECURSIVE PathNumber(_)
\* the line of the document that the node of the path starts on: one line
\* for each node
PathNumber(path) ==
    IF path = <<>> THEN 0
    ELSE 10 * PathNumber(SubSeq(path, 1, Len(path) - 1)) + path[Len(path)] + 1

TextValue == MustacheOpen \o <<"a">> \o MustacheClose \o MustacheOpen \o <<"(">> \o MustacheClose

IfValue == BracketOpen \o <<"a">> \o BracketClose

RECURSIVE DomNode(_, _)
\* the parse5 node of a tree whose root is at the path
DomNode(tree, path) ==
    IF tree.kind = "#text"
    THEN TextNode(TextValue, RangeInDocument(PathNumber(path), 0, TextValue))
             @@ [path |-> path]
    ELSE IF tree.kind = "dom-module"
    THEN [nodeName |-> "dom-module", tagName |-> "dom-module", attrs |-> <<>>,
          childNodes |-> [k \in 1..Len(tree.children) |->
                             DomNode(tree.children[k], path \o <<k>>)],
          path |-> path]
    ELSE [nodeName |-> "template", tagName |-> "template",
          attrs |-> IF tree.kind = "template" THEN <<>>
                    ELSE <<Attribute("is", <<"d", "o", "m", "-", "i", "f">>,
                                     RangeInDocument(PathNumber(path), 10,
                                                     <<"d", "o", "m", "-", "i", "f">>)),
                           Attribute("if", IfValue,
                                     RangeInDocument(PathNumber(path), 20, IfValue))>>,
          childNodes |-> <<>>,
          content |-> [nodeName   |-> "#document-fragment",
                       childNodes |-> [k \in 1..Len(tree.children) |->
                                          DomNode(tree.children[k], path \o <<0, k>>)],
                       path       |-> path \o <<0>>],
          path |-> path]

\* document.ast
DocumentOf(forest) ==
    [nodeName   |-> "#document",
     childNodes |-> [k \in 1..Len(forest) |-> DomNode(forest[k], <<k>>)],
     path       |-> <<>>]

Documents(maxNodes) ==
    LET T == DomTable(maxNodes)
    IN  {DocumentOf(forest) : forest \in UNION {T.forests[k] : k \in 1..maxNodes}}

PathsOf(nodes) == [k \in 1..Len(nodes) |-> nodes[k].path]

InitWalk ==
    /\ pc = "walk"
    /\ document \in Documents(MaxDomNodes)
    /\ scope = <<>>
    /\ templates = <<>>
    /\ visits = <<>>
    /\ str = Unused
    /\ site = Unused /\ literal = Unused /\ locatable = TRUE
    /\ dataBindings = Unused /\ locals = Unused /\ databinding = Unused
    /\ results = <<>>
    /\ warnings = <<>>
    /\ ScanUnused
    /\ RangeUnused
    /\ ExprUnused
    /\ ParseUnused

ScanDocumentForExpressions ==
    /\ pc = "walk"
    /\ \E found \in {GetAllDataBindingTemplates(document, document)} :
       \E out \in {ExtractDataBindingsFromTemplates(found)} :
           /\ templates' = PathsOf(found)
           /\ results' = out.results
           /\ warnings' = out.warnings
           /\ visits' = out.visits
    /\ pc' = "walked"
    /\ UNCHANGED <<str, scanVars, rangeVars, exprVars, parseVars, siteVars, dataBindings, locals, databinding, document, scope>>

ScanDatabindingTemplateForExpressions ==
    /\ pc = "walk"
    /\ \E template \in RangeOf(GetAllDataBindingTemplates(document, document)) :
       \E found \in {<<template>> \o GetAllDataBindingTemplates(document, template.content)} :
       \E out \in {ExtractDataBindingsFromTemplates(found)} :
           /\ scope' = template.path
           /\ templates' = PathsOf(found)
           /\ results' = out.results
           /\ warnings' = out.warnings
           /\ visits' = out.visits
    /\ pc' = "walked"
    /\ UNCHANGED <<str, scanVars, rangeVars, exprVars, parseVars, siteVars, dataBindings, locals, databinding, document>>

NextWalk == ScanDocumentForExpressions \/ ScanDatabindingTemplateForExpressions

SpecWalk == InitWalk /\ [][NextWalk]_vars

Walked == pc = "walked"

\* every node of the document, those in the content of templates included
AllNodes == NodeWalkAll(document, "childNodesIncludeTemplate")

\* whether the node lies in the content of a template
InTemplateContent(node) == \E j \in 1..Len(node.path) : node.path[j] = 0

\* the path of the template whose content the node lies in: the innermost
\* one
EnclosingTemplate(node) ==
    SubSeq(node.path, 1,
           Max({j \in 1..Len(node.path) : node.path[j] = 0}) - 1)

IsPrefix(p, q) == Len(p) <= Len(q) /\ SubSeq(q, 1, Len(p)) = p

\* the node lies in the content of a template that the scan is about: a
\* data-binding template of the document, or of the scanned template, or
\* the scanned template itself
InScannedContent(node) ==
    /\ InTemplateContent(node)
    /\ IsPrefix(scope, EnclosingTemplate(node))
    /\ \/ EnclosingTemplate(node) = scope
       \/ IsDataBindingTemplate(document, NodeAt(document, EnclosingTemplate(node)))

\* the extractor calls that are due: one for each text with a value and one
\* for each attribute of each node in the scanned content
DueVisits ==
    UNION {(IF IsTextNode(AllNodes[k]) /\ AllNodes[k].value # <<>>
            THEN {[path |-> AllNodes[k].path, attr |-> 0]} ELSE {})
           \cup (IF HasField(AllNodes[k], "attrs")
                 THEN {[path |-> AllNodes[k].path, attr |-> j] :
                          j \in 1..Len(AllNodes[k].attrs)}
                 ELSE {}) :
           k \in {i \in 1..Len(AllNodes) : InScannedContent(AllNodes[i])}}

NoDuplicates(seq) == \A i, j \in 1..Len(seq) : seq[i] = seq[j] => i = j

\* C8: in scanDocumentForExpressions and
\* scanDatabindingTemplateForExpressions every text node and every
\* attribute that lies in the content of a data-binding template of the
\* scan is passed to its extractor exactly once, also when data-binding
\* templates are nested: the walk of a template's content does not enter
\* the content of a nested template, and no expression and no warning is
\* returned twice
C8_EachSiteVisitedOnce ==
    Walked =>
        /\ RangeOf(visits) = DueVisits
        /\ NoDuplicates(visits)
        /\ NoDuplicates(results)
        /\ NoDuplicates(warnings)

\* a scan of a document in which a text lies in a data-binding template
\* nested in the content of another one
C8_Witness ==
    /\ Walked
    /\ scope = <<>>
    /\ \E k \in 1..Len(visits) :
           /\ visits[k].attr = 0
           /\ Cardinality({j \in 1..Len(visits[k].path) : visits[k].path[j] = 0}) = 2
           /\ \E i, j \in 1..Len(templates) :
                  /\ templates[j] = EnclosingTemplate([path |-> visits[k].path])
                  /\ templates[i] = EnclosingTemplate([path |-> templates[j]])
    /\ results # <<>>
    /\ warnings # <<>>

----------------------------------------------------------------------------
(* The operations together: each behaviour applies one of them to one of  *)
(* its inputs.                                                             *)

Init == InitScan \/ InitRange \/ InitValidate \/ InitParse \/ InitExtract \/ InitWalk

Next == NextScan \/ NextRange \/ NextValidate \/ NextParse \/ NextExtract \/ NextWalk

Spec == Init /\ [][Next]_vars

============================================================================
